---- MODULE Spec2Model ----
(***************************************************************************)
(* The process bridge of the desktop shell (src-tauri/src/python.rs and    *)
(* src-tauri/src/commands.rs): interpreter resolution, argument vectors,   *)
(* the backend subprocess and the interpretation of its output.            *)
(*                                                                         *)
(* Text is a sequence of atoms.  An atom is a TLA+ string standing for a   *)
(* run of characters; subprocess output is written one character per atom. *)
(***************************************************************************)
EXTENDS Integers, Sequences, FiniteSets, TLC

VARIABLES
    fs,          \* environment: what each interpreter candidate is on this host
    cwdOk,       \* environment: std::env::current_dir() succeeds
    debugOn,     \* environment: the tracing subscriber enables DEBUG events
    os,          \* environment: the OS family of the host
    workers,     \* environment: worker threads of the async runtime
    pc,          \* per call: position in the handler
    req,         \* per call: the request of the command
    args,        \* per call: the argument vector the command holds
    idx,         \* per call: position in the candidate list during resolution
    probeLog,    \* per call: the version probes attempted so far, in order
    probing,     \* per call: the candidates whose probe subprocess is running
    resolveRes,  \* per call: what get_python_path returned
    spawned,     \* per call: the backend subprocesses handed to the OS
    outc,        \* per call: what the backend subprocess produced
    execRes,     \* per call: what execute_python_command returned
    result       \* per call: what the caller of the command received

vars == <<fs, cwdOk, debugOn, os, workers, pc, req, args, idx, probeLog, probing,
          resolveRes, spawned, outc, execRes, result>>

Calls == {1}

\* the OS families the shell is built for
OsFamilies == {"unix", "windows"}

None == [tag |-> "none"]
Ok(v) == [tag |-> "ok", val |-> v]
Err(m) == [tag |-> "err", msg |-> m]

-----------------------------------------------------------------------------
(* Text helpers *)

\* s occurs in t as a contiguous run (str::contains)
Contains(t, s) ==
    \E i \in 0..(Len(t) - Len(s)) : SubSeq(t, i + 1, i + Len(s)) = s

StartsWith(t, s) == Len(t) >= Len(s) /\ SubSeq(t, 1, Len(s)) = s

DigitChars == <<"0", "1", "2", "3", "4", "5", "6", "7", "8", "9">>

RECURSIVE U32ToString(_)
U32ToString(n) ==
    IF n < 10 THEN <<DigitChars[n + 1]>>
    ELSE U32ToString(n \div 10) \o <<DigitChars[(n % 10) + 1]>>

\* i64::to_string
I64ToString(n) == IF n < 0 THEN <<"-">> \o U32ToString(0 - n) ELSE U32ToString(n)

Whitespace == {" ", "\t", "\r", "\n"}

RECURSIVE TrimStart(_)
TrimStart(t) ==
    IF t # <<>> /\ Head(t) \in Whitespace THEN TrimStart(Tail(t)) ELSE t

RECURSIVE TrimEnd(_)
TrimEnd(t) ==
    IF t # <<>> /\ t[Len(t)] \in Whitespace THEN TrimEnd(SubSeq(t, 1, Len(t) - 1)) ELSE t

Trim(t) == TrimEnd(TrimStart(t))

-----------------------------------------------------------------------------
(* Interpreter candidates, in the order get_python_path examines them *)

Candidates == <<
    [origin |-> "bundled-windows", rel |-> <<"..", "..", "backend", "venv", "Scripts", "python.exe">>],
    [origin |-> "bundled-unix",    rel |-> <<"..", "..", "backend", "venv", "bin", "python">>],
    [origin |-> "system",          rel |-> <<"python">>],
    [origin |-> "system",          rel |-> <<"python3">>],
    [origin |-> "system",          rel |-> <<"py">>] >>

CandIds == 1..Len(Candidates)

IsBundled(k) == Candidates[k].origin # "system"

\* the process's working directory, as a list of path components
CurrentDir == <<"", "opt", "app", "desktop", "src-tauri">>

\* the string get_python_path returns for candidate k
CandPath(k) ==
    IF IsBundled(k) THEN CurrentDir \o Candidates[k].rel ELSE Candidates[k].rel

\* what a candidate can be on a host: a bundled path may be absent from disk;
\* any candidate may fail to spawn, exit nonzero, or answer the version query
CandStates(k) ==
    IF IsBundled(k) THEN {"missing", "spawnfail", "nonzero", "ok"}
    ELSE {"spawnfail", "nonzero", "ok"}

EnvAll == {e \in [CandIds -> {"missing", "spawnfail", "nonzero", "ok"}] :
              \A k \in CandIds : e[k] \in CandStates(k)}

NotFoundMsg == <<"Python not found in PATH or virtual environment">>
CwdFailMsg == <<"Failed to get current directory: ", "<io error>">>

-----------------------------------------------------------------------------
(* Requests and the argument vectors built from them *)

\* Option<T>: <<>> is None, <<v>> is Some(v)
NoneOpt == <<>>
Some(v) == <<v>>
IsSome(o) == Len(o) > 0
Unwrap(o) == o[1]

\* a Display that always prints one decimal place
F64ToStringFixed1(h) ==
    LET a == IF h < 0 THEN 0 - h ELSE h
    IN  (IF h < 0 THEN <<"-">> ELSE <<>>) \o U32ToString(a \div 2)
        \o <<".", IF a % 2 = 0 THEN "0" ELSE "5">>

\* f64 values are modelled as a whole number of halves; Display for f64 prints
\* no exponent, no grouping and no fraction for an integral value
F64ToString(h) ==
    LET a == IF h < 0 THEN 0 - h ELSE h
        sign == IF h < 0 THEN <<"-">> ELSE <<>>
        frac == IF a % 2 = 0 THEN <<>> ELSE <<".", "5">>
    IN  sign \o U32ToString(a \div 2) \o frac

\* one flag/value pair when the optional field is present
OptPair(flag, o) == IF IsSome(o) THEN <<flag, Unwrap(o)>> ELSE <<>>

\* the text of an optional number, when it is present
OptU32Text(o) == IF IsSome(o) THEN Some(U32ToString(Unwrap(o))) ELSE NoneOpt
OptF64Text(o) == IF IsSome(o) THEN Some(F64ToString(Unwrap(o))) ELSE NoneOpt

CreateProjectArgs(d) ==
    << <<"project">>, <<"create">>, d.name, F64ToString(d.budget),
       d.property_type, d.property_class >>
    \o OptPair(<<"--description">>, d.description)
    \o OptPair(<<"--floors">>, OptU32Text(d.floors))
    \o OptPair(<<"--sqft">>, OptF64Text(d.sqft))
    \o OptPair(<<"--address">>, d.address)

\* an update that passes the name on a second time
UpdateProjectArgsNameTwice(project_id, d) ==
    << <<"project">>, <<"update">>, U32ToString(project_id) >>
    \o OptPair(<<"--name">>, d.name)
    \o OptPair(<<"--description">>, d.description)
    \o OptPair(<<"--budget">>, OptF64Text(d.budget))
    \o OptPair(<<"--name">>, d.name)

UpdateProjectArgs(project_id, d) ==
    << <<"project">>, <<"update">>, U32ToString(project_id) >>
    \o OptPair(<<"--name">>, d.name)
    \o OptPair(<<"--description">>, d.description)
    \o OptPair(<<"--budget">>, OptF64Text(d.budget))
    \o OptPair(<<"--floors">>, OptU32Text(d.floors))
    \o OptPair(<<"--sqft">>, OptF64Text(d.sqft))
    \o OptPair(<<"--address">>, d.address)

AddRoomArgs(project_id, d) ==
    << <<"room">>, <<"add">>, U32ToString(project_id), d.name, U32ToString(d.floor) >>
    \o OptPair(<<"--length">>, OptF64Text(d.length))
    \o OptPair(<<"--width">>, OptF64Text(d.width))
    \o OptPair(<<"--height">>, OptF64Text(d.height))
    \o OptPair(<<"--condition">>, OptU32Text(d.condition))
    \o OptPair(<<"--notes">>, d.notes)

\* the hours add_expense passes on: only a value above zero
AddExpenseHours(o) == IF IsSome(o) /\ Unwrap(o) > 0 THEN o ELSE NoneOpt

\* the notes add_expense passes on: only text that is not blank
AddExpenseNotes(o) == IF IsSome(o) /\ Trim(Unwrap(o)) # <<>> THEN o ELSE NoneOpt

AddExpenseArgs(project_id, d) ==
    << <<"expense">>, <<"add">>, U32ToString(project_id), d.room_name, d.category,
       F64ToString(d.cost) >>
    \o OptPair(<<"--hours">>, OptF64Text(AddExpenseHours(d.hours)))
    \o OptPair(<<"--condition">>, OptU32Text(d.condition))
    \o OptPair(<<"--notes">>, AddExpenseNotes(d.notes))

\* serde_json::Value, as far as update_expense looks at it: a string, an
\* integer number, a floating-point number (in halves), or null
JStr(t) == [kind |-> "str", text |-> t]
JInt(n) == [kind |-> "int", int |-> n]
JFloat(h) == [kind |-> "float", halves |-> h]
JNull == [kind |-> "null"]

\* data.get(key).and_then(|v| v.as_str()); o is data.get(key)
AsStr(o) == IF IsSome(o) /\ Unwrap(o).kind = "str" THEN Some(Unwrap(o).text) ELSE NoneOpt

\* ... .and_then(|v| v.as_f64()), the value in halves
AsF64(o) ==
    IF IsSome(o) /\ Unwrap(o).kind = "int" THEN Some(2 * Unwrap(o).int)
    ELSE IF IsSome(o) /\ Unwrap(o).kind = "float" THEN Some(Unwrap(o).halves)
    ELSE NoneOpt

\* ... .and_then(|v| v.as_i64()): a floating-point number is not an i64
AsI64(o) == IF IsSome(o) /\ Unwrap(o).kind = "int" THEN Some(Unwrap(o).int) ELSE NoneOpt

OptI64Text(o) == IF IsSome(o) THEN Some(I64ToString(Unwrap(o))) ELSE NoneOpt

\* the hours update_expense passes on: any number it was given
UpdateExpenseHours(o) == AsF64(o)

UpdateExpenseArgs(expense_id, data) ==
    << <<"expense">>, <<"update">>, U32ToString(expense_id) >>
    \o OptPair(<<"--room">>, AsStr(data.room_name))
    \o OptPair(<<"--category">>, AsStr(data.category))
    \o OptPair(<<"--cost">>, OptF64Text(AsF64(data.cost)))
    \o OptPair(<<"--hours">>, OptF64Text(UpdateExpenseHours(data.hours)))
    \o OptPair(<<"--condition">>, OptI64Text(AsI64(data.condition)))
    \o OptPair(<<"--notes">>, AsStr(data.notes))

\* the vector each command passes to execute_python_command
BuildArgs(r) ==
    CASE r.cmd = "get_projects"   -> << <<"project">>, <<"list">> >>
      [] r.cmd = "get_project"    -> << <<"project">>, <<"show">>, U32ToString(r.project_id) >>
      [] r.cmd = "create_project" -> CreateProjectArgs(r.data)
      [] r.cmd = "update_project" -> UpdateProjectArgs(r.project_id, r.data)
      [] r.cmd = "add_room"       -> AddRoomArgs(r.project_id, r.data)
      [] r.cmd = "add_expense"    -> AddExpenseArgs(r.project_id, r.data)
      [] r.cmd = "update_expense" -> UpdateExpenseArgs(r.expense_id, r.data)
      [] r.cmd = "export_project" -> << <<"export">>, <<"csv">>, U32ToString(r.project_id) >>
      [] r.cmd = "json_command"   -> r.argv

\* the text each command puts before the error of execute_python_command;
\* execute_python_json_command is called directly and adds nothing
ErrPrefix(r) ==
    CASE r.cmd = "get_projects"   -> <<"Failed to get projects: ">>
      [] r.cmd = "get_project"    -> <<"Failed to get project ">> \o U32ToString(r.project_id) \o <<": ">>
      [] r.cmd = "create_project" -> <<"Failed to create project: ">>
      [] r.cmd = "update_project" -> <<"Failed to update project ">> \o U32ToString(r.project_id) \o <<": ">>
      [] r.cmd = "add_room"       -> <<"Failed to add room: ">>
      [] r.cmd = "add_expense"    -> <<"Failed to add expense: ">>
      [] r.cmd = "update_expense" -> <<"Failed to update expense ">> \o U32ToString(r.expense_id) \o <<": ">>
      [] r.cmd = "export_project" -> <<"Failed to export project ">> \o U32ToString(r.project_id) \o <<": ">>
      [] r.cmd = "json_command"   -> <<>>

\* map_err(|e| format!("...: {}", e)) followed by Ok(output)
WrapResult(r, res) ==
    IF res.tag = "ok" THEN Ok(res.val) ELSE Err(ErrPrefix(r) \o res.msg)

IsJsonCall(r) == r.cmd = "json_command"

UnsupportedFormatMsg == <<"Only CSV export is currently supported">>

\* the request a command turns down itself, after building its vector and
\* before it calls execute_python_command: an export in a format other than
\* "csv"
RejectsRequest(r) == r.cmd = "export_project" /\ r.format # <<"c", "s", "v">>

-----------------------------------------------------------------------------
(* Captured output: decoding, the debug slice, lines and JSON *)

\* a byte that is not valid UTF-8, as the subprocess may write it
InvalidByte == "<invalid byte>"
ReplacementChar == "<U+FFFD>"

\* String::from_utf8_lossy: every invalid byte becomes U+FFFD
Lossy(raw) == [i \in 1..Len(raw) |-> IF raw[i] = InvalidByte THEN ReplacementChar ELSE raw[i]]

EAcute == "<U+00E9>"

\* UTF-8 width of a character atom
Utf8Width(ch) ==
    CASE ch = ReplacementChar -> 3
      [] ch = EAcute          -> 2
      [] OTHER                -> 1

\* over the characters lo..hi of t, the first of which starts at byte offset
\* off: their length in bytes, and whether byte offset n starts one of them
RECURSIVE ByteScan(_, _, _, _, _)
ByteScan(t, lo, hi, off, n) ==
    IF lo > hi THEN [len |-> 0, hit |-> FALSE]
    ELSE IF lo = hi THEN [len |-> Utf8Width(t[lo]), hit |-> off = n]
    ELSE LET mid == (lo + hi) \div 2
             l == ByteScan(t, lo, mid, off, n)
             r == ByteScan(t, mid + 1, hi, off + l.len, n)
         IN  [len |-> l.len + r.len, hit |-> l.hit \/ r.hit]

\* str::len
ByteLen(t) == ByteScan(t, 1, Len(t), 0, 0).len

\* str::is_char_boundary: offset 0, the end, or the first byte of a character
IsCharBoundary(t, n) == n = 0 \/ n = ByteLen(t) \/ ByteScan(t, 1, Len(t), 0, n).hit

DebugSliceLimit == 500

\* &stdout[..stdout.len().min(500)] panics unless the cut is a char boundary
SlicePanics(t) ==
    LET cut == IF ByteLen(t) < DebugSliceLimit THEN ByteLen(t) ELSE DebugSliceLimit
    IN  ~IsCharBoundary(t, cut)

\* the debug! events of execute_python_command evaluate their arguments only
\* when DEBUG is enabled; the stdout slice is taken for a non-empty stdout
DebugPanics(dbg, stdout) == dbg /\ Len(stdout) > 0 /\ SlicePanics(stdout)

\* a line ended by "\n" loses one "\r" before it
StripCr(l) == IF l # <<>> /\ l[Len(l)] = "\r" THEN SubSeq(l, 1, Len(l) - 1) ELSE l

\* str::lines: split at "\n" (or "\r\n"); no empty line after a final "\n"
Lines(t) ==
    LET nl == {i \in 1..Len(t) : t[i] = "\n"}
        nth(j) == IF j = 0 THEN 0
                  ELSE CHOOSE i \in nl : Cardinality({x \in nl : x < i}) = j - 1
        last == nth(Cardinality(nl))
        ended == [j \in 1..Cardinality(nl) |-> StripCr(SubSeq(t, nth(j - 1) + 1, nth(j) - 1))]
    IN  IF last < Len(t) THEN Append(ended, SubSeq(t, last + 1, Len(t))) ELSE ended

RECURSIVE SkipWs(_, _)
SkipWs(s, i) == IF i <= Len(s) /\ s[i] \in Whitespace THEN SkipWs(s, i + 1) ELSE i

RECURSIVE SkipDigits(_, _)
SkipDigits(s, i) == IF i <= Len(s) /\ s[i] = "7" THEN SkipDigits(s, i + 1) ELSE i

ParseFail == [ok |-> FALSE, val |-> None, next |-> 0]

\* serde_json's value grammar over the characters the modelled output uses:
\* numbers written with the digit 7, the empty object, arrays of at most one
\* element (no comma, quote or colon occurs in the modelled output)
RECURSIVE ParseValue(_, _)
ParseValue(s, start) ==
    LET i == SkipWs(s, start) IN
    IF i > Len(s) THEN ParseFail
    ELSE IF s[i] = "7" THEN
        LET j == SkipDigits(s, i)
        IN  [ok |-> TRUE, val |-> [t |-> "num", digits |-> j - i], next |-> j]
    ELSE IF s[i] = "{" THEN
        LET j == SkipWs(s, i + 1)
        IN  IF j <= Len(s) /\ s[j] = "}"
            THEN [ok |-> TRUE, val |-> [t |-> "obj"], next |-> j + 1]
            ELSE ParseFail
    ELSE IF s[i] = "[" THEN
        LET j == SkipWs(s, i + 1)
        IN  IF j <= Len(s) /\ s[j] = "]"
            THEN [ok |-> TRUE, val |-> [t |-> "arr", items |-> <<>>], next |-> j + 1]
            ELSE LET e == ParseValue(s, j)
                     k == IF e.ok THEN SkipWs(s, e.next) ELSE 0
                 IN  IF e.ok /\ k <= Len(s) /\ s[k] = "]"
                     THEN [ok |-> TRUE, val |-> [t |-> "arr", items |-> <<e.val>>], next |-> k + 1]
                     ELSE ParseFail
    ELSE ParseFail

\* serde_json::from_str::<T>: one value, then nothing but whitespace
JsonFromStr(s) ==
    LET r == ParseValue(s, 1)
    IN  IF r.ok /\ SkipWs(s, r.next) > Len(s) THEN Ok(r.val) ELSE Err(<<"<serde error>">>)

\* a test that takes only objects for JSON
LooksLikeJsonObjectOnly(trimmed) == StartsWith(trimmed, <<"{">>)

LooksLikeJson(trimmed) == StartsWith(trimmed, <<"{">>) \/ StartsWith(trimmed, <<"[">>)

NoJsonMsg == <<"No valid JSON found in Python output: ">>

\* an error that carries the output without its surrounding whitespace
NoJsonErrorTrimmed(output) == Err(NoJsonMsg \o Trim(output))

\* the error after the loop found no line that decodes
NoJsonError(output) == Err(NoJsonMsg \o output)

\* the loop of execute_python_json_command over output.lines()
RECURSIVE ScanLines(_, _, _)
ScanLines(ls, i, output) ==
    IF i > Len(ls) THEN NoJsonError(output)
    ELSE LET trimmed == Trim(ls[i]) IN
         IF LooksLikeJson(trimmed)
         THEN LET d == JsonFromStr(trimmed)
              IN  IF d.tag = "ok" THEN Ok(d.val) ELSE ScanLines(ls, i + 1, output)
         ELSE ScanLines(ls, i + 1, output)

ParseJsonOutput(output) == ScanLines(Lines(output), 1, output)

PyFailedMsg == <<"Python command failed: ">>
PyNotFoundPrefix == <<"Python not found: ">>

\* the tail of execute_python_command: exit status alone decides
Classify(code, stdout, stderr) ==
    IF code = 0 THEN Ok(stdout) ELSE Err(PyFailedMsg \o stderr)

-----------------------------------------------------------------------------
(* The backend subprocess as execute_python_command sets it up *)

\* Path::parent, on a list of components
Parent(p) == SubSeq(p, 1, Len(p) - 1)

\* Path::display: components joined by the separator
RECURSIVE PathText(_)
PathText(p) ==
    IF Len(p) = 0 THEN <<>>
    ELSE IF Len(p) = 1 THEN <<p[1]>>
    ELSE PathText(Parent(p)) \o <<"/", p[Len(p)]>>

\* a test that knows the Unix layout of the bundled runtime only
IsVenvPathUnixOnly(p) == \E i \in 1..Len(p) : p[i] = "bin"

\* python_path.contains("backend"); every handle get_python_path returns is
\* either a bare name or a path with the component "backend"
IsVenvPath(p) == \E i \in 1..Len(p) : p[i] = "backend"

\* std::env::var("PATH") of the shell: entries joined by the separator of
\* the host's OS family
InheritedPath ==
    IF os = "windows" THEN <<"C:\\Windows\\system32", ";", "C:\\Python311">>
    ELSE <<"/usr/bin", ":", "/bin">>
FallbackDir == <<"..", "..", "backend">>
\* an environment that sets the stream encoding only
Utf8EnvIoOnly == { <<"PYTHONIOENCODING", <<"utf-8">> >> }

Utf8Env == { <<"PYTHONIOENCODING", <<"utf-8">> >>, <<"PYTHONUTF8", <<"1">> >> }

BackendCommand(path, argv) ==
    IF IsVenvPath(path)
    THEN LET venv_dir == Parent(Parent(path))
             backend_dir == Parent(venv_dir)
         IN  [program |-> path,
              dir     |-> backend_dir,
              env     |-> Utf8Env \cup
                          { <<"VIRTUAL_ENV", PathText(venv_dir)>>,
                            <<"PATH", PathText(Parent(path)) \o <<";">> \o InheritedPath>>,
                            <<"PYTHONPATH", PathText(backend_dir)>> },
              argv    |-> << <<"-m">>, <<"src.cli">> >> \o argv]
    ELSE [program |-> path,
          dir     |-> FallbackDir,
          env     |-> Utf8Env,
          argv    |-> << <<"-m">>, <<"src.cli">> >> \o argv]

-----------------------------------------------------------------------------
(* The calls *)

\* the shell has started on a host and the calls Cs have not begun
InitOn(Cs, Oses, Workers, Envs, Cwds, Debugs) ==
    /\ fs \in Envs
    /\ cwdOk \in Cwds
    /\ debugOn \in Debugs
    /\ os \in Oses
    /\ workers \in Workers
    /\ pc = [c \in Cs |-> "idle"]
    /\ req = [c \in Cs |-> None]
    /\ args = [c \in Cs |-> <<>>]
    /\ idx = [c \in Cs |-> 0]
    /\ probeLog = [c \in Cs |-> <<>>]
    /\ probing = [c \in Cs |-> {}]
    /\ resolveRes = [c \in Cs |-> None]
    /\ spawned = [c \in Cs |-> <<>>]
    /\ outc = [c \in Cs |-> None]
    /\ execRes = [c \in Cs |-> None]
    /\ result = [c \in Cs |-> None]

\* one call on a Unix host
Init(Envs, Cwds, Debugs) == InitOn(Calls, {"unix"}, {1}, Envs, Cwds, Debugs)

\* what the caller gets for the result of execute_python_command
Deliver(r, res) ==
    IF IsJsonCall(r)
    THEN (IF res.tag = "ok" THEN ParseJsonOutput(res.val) ELSE res)
    ELSE WrapResult(r, res)

\* execute_python_command ends without having started the backend
FinishEarly(c, res) ==
    /\ execRes' = [execRes EXCEPT ![c] = res]
    /\ result' = [result EXCEPT ![c] = Deliver(req[c], res)]
    /\ pc' = [pc EXCEPT ![c] = "done"]

\* a search that falls back to a bare interpreter name
ResolveFallback == Ok(<<"python">>)

\* what get_python_path returns when the last candidate did not verify
ResolveExhausted == Err(NotFoundMsg)

\* get_python_path returns res to execute_python_command, which goes on to
\* the backend command or maps the error and returns it
AfterResolve(c, res) ==
    /\ resolveRes' = [resolveRes EXCEPT ![c] = res]
    /\ IF res.tag = "ok"
       THEN /\ pc' = [pc EXCEPT ![c] = "spawn"]
            /\ UNCHANGED <<execRes, result>>
       ELSE FinishEarly(c, Err(PyNotFoundPrefix \o res.msg))

\* a task runs on a worker thread of the async runtime; a call waiting in the
\* blocking Command::output of a version probe keeps its worker thread
HasWorker(c) == Cardinality({d \in DOMAIN pc \ {c} : pc[d] = "probing"}) < workers

\* a search that resumes at the candidate another call has returned
SearchStartRemembered(c) ==
    LET known == {k \in CandIds : \E d \in DOMAIN pc \ {c} :
                      resolveRes[d].tag = "ok" /\ resolveRes[d].val = CandPath(k)}
    IN  IF known = {} THEN 1 ELSE CHOOSE k \in known : \A j \in known : k <= j

\* the candidate a call of get_python_path examines first
SearchStart(c) == 1

\* a command handler starts: it builds its argument vector and calls
\* execute_python_command, which calls get_python_path
Invoke(c, Reqs) ==
    /\ pc[c] = "idle"
    /\ HasWorker(c)
    /\ \E r \in Reqs :
        /\ req' = [req EXCEPT ![c] = r]
        /\ args' = [args EXCEPT ![c] = BuildArgs(r)]
        /\ IF RejectsRequest(r)
           THEN /\ result' = [result EXCEPT ![c] = Err(UnsupportedFormatMsg)]
                /\ pc' = [pc EXCEPT ![c] = "done"]
           ELSE /\ pc' = [pc EXCEPT ![c] = "cwd"]
                /\ UNCHANGED result
    /\ UNCHANGED <<fs, cwdOk, debugOn, os, workers, idx, probeLog, probing, resolveRes,
                   spawned, outc, execRes>>

\* get_python_path reads the current directory
GetCwd(c) ==
    /\ pc[c] = "cwd"
    /\ HasWorker(c)
    /\ IF cwdOk
       THEN /\ idx' = [idx EXCEPT ![c] = SearchStart(c)]
            /\ pc' = [pc EXCEPT ![c] = "probe"]
            /\ UNCHANGED <<resolveRes, execRes, result>>
       ELSE /\ AfterResolve(c, Err(CwdFailMsg))
            /\ UNCHANGED idx
    /\ UNCHANGED <<fs, cwdOk, debugOn, os, workers, req, args, probeLog, probing, spawned, outc>>

\* whether get_python_path hands candidate k to Command::output at all
ProbeAttempted(k, state) == ~(IsBundled(k) /\ state = "missing")

\* whether Command::output returns Ok for the probe (the process ran)
ProbeSpawns(k, state) == state \in {"nonzero", "ok"}

\* a probe that never ends the search
ProbeVerifiesNever(state) == FALSE

\* a probe whose exit status is not looked at
ProbeVerifiesLoose(state) == state \in {"nonzero", "ok"}

\* whether the finished probe makes get_python_path return the candidate
ProbeVerifies(state) == state = "ok"

\* a search that tries the candidate again
NextCandidateAgain(k) == k

\* a search that steps over a candidate
NextCandidateSkip(k) == k + 2

\* the candidate examined after candidate k did not verify
NextCandidate(k) == k + 1

\* get_python_path examines the next candidate, or gives up after the last
ProbeStart(c) ==
    /\ pc[c] = "probe"
    /\ HasWorker(c)
    /\ probing[c] = {}
    /\ LET k == idx[c] IN
       IF k > Len(Candidates)
       THEN /\ AfterResolve(c, ResolveExhausted)
            /\ UNCHANGED <<idx, probeLog, probing>>
       ELSE IF ~ProbeAttempted(k, fs[k])
       THEN /\ idx' = [idx EXCEPT ![c] = NextCandidate(k)]
            /\ UNCHANGED <<pc, probeLog, probing, resolveRes, execRes, result>>
       ELSE IF ~ProbeSpawns(k, fs[k])
       THEN /\ probeLog' = [probeLog EXCEPT ![c] = Append(@, [cand |-> k, ran |-> FALSE])]
            /\ idx' = [idx EXCEPT ![c] = NextCandidate(k)]
            /\ UNCHANGED <<pc, probing, resolveRes, execRes, result>>
       ELSE /\ probeLog' = [probeLog EXCEPT ![c] = Append(@, [cand |-> k, ran |-> TRUE])]
            /\ probing' = [probing EXCEPT ![c] = @ \cup {k}]
            /\ pc' = [pc EXCEPT ![c] = "probing"]
            /\ UNCHANGED <<idx, resolveRes, execRes, result>>
    /\ UNCHANGED <<fs, cwdOk, debugOn, os, workers, req, args, spawned, outc>>

\* the probe subprocess ends and Command::output returns its status
ProbeFinish(c) ==
    /\ pc[c] = "probing"
    /\ LET k == idx[c] IN
       /\ probing' = [probing EXCEPT ![c] = @ \ {k}]
       /\ IF ProbeVerifies(fs[k])
          THEN /\ AfterResolve(c, Ok(CandPath(k)))
               /\ UNCHANGED idx
          ELSE /\ idx' = [idx EXCEPT ![c] = NextCandidate(k)]
               /\ pc' = [pc EXCEPT ![c] = "probe"]
               /\ UNCHANGED <<resolveRes, execRes, result>>
    /\ UNCHANGED <<fs, cwdOk, debugOn, os, workers, req, args, probeLog, spawned, outc>>

IoErrorMsg == <<"<io error>">>

\* execute_python_command sets up the backend command and starts it;
\* cmd.output().await? returns the io error when the OS cannot start it
SpawnBackend(c) ==
    /\ pc[c] = "spawn"
    /\ HasWorker(c)
    /\ \E launches \in BOOLEAN :
        IF launches
        THEN /\ spawned' = [spawned EXCEPT ![c] = Append(@, BackendCommand(resolveRes[c].val, args[c]))]
             /\ pc' = [pc EXCEPT ![c] = "running"]
             /\ UNCHANGED <<execRes, result>>
        ELSE /\ FinishEarly(c, Err(IoErrorMsg))
             /\ UNCHANGED spawned
    /\ UNCHANGED <<fs, cwdOk, debugOn, os, workers, req, args, idx, probeLog, probing, resolveRes, outc>>

\* the backend exits; its captured output is decoded, logged and classified,
\* and the command hands the outcome to its caller
BackendExit(c, Outs) ==
    /\ pc[c] = "running"
    /\ HasWorker(c)
    /\ \E o \in Outs :
        /\ outc' = [outc EXCEPT ![c] = o]
        /\ LET stdout == Lossy(o.stdout)
               stderr == Lossy(o.stderr)
           IN  IF DebugPanics(debugOn, stdout)
               THEN /\ pc' = [pc EXCEPT ![c] = "panicked"]
                    /\ UNCHANGED <<execRes, result>>
               ELSE /\ execRes' = [execRes EXCEPT ![c] = Classify(o.code, stdout, stderr)]
                    /\ result' = [result EXCEPT ![c] = Deliver(req[c], Classify(o.code, stdout, stderr))]
                    /\ pc' = [pc EXCEPT ![c] = "done"]
    /\ UNCHANGED <<fs, cwdOk, debugOn, os, workers, req, args, idx, probeLog, probing, resolveRes, spawned>>

\* between calls the host changes: runtimes and interpreters appear or go
EnvChange(Envs) ==
    /\ \A c \in DOMAIN pc : pc[c] \in {"idle", "done", "panicked"}
    /\ \E e \in Envs \ {fs} : fs' = e
    /\ UNCHANGED <<cwdOk, debugOn, os, workers, pc, req, args, idx, probeLog, probing,
                   resolveRes, spawned, outc, execRes, result>>

Next(Reqs, Outs) ==
    \E c \in Calls :
        \/ Invoke(c, Reqs)
        \/ GetCwd(c)
        \/ ProbeStart(c)
        \/ ProbeFinish(c)
        \/ SpawnBackend(c)
        \/ BackendExit(c, Outs)

-----------------------------------------------------------------------------
(* Inputs and specifications *)

Lakehouse ==
    [name |-> <<"Lakehouse">>, budget |-> 500000, property_type |-> <<"flip">>,
     property_class |-> <<"residential">>, description |-> NoneOpt,
     floors |-> Some(2), sqft |-> NoneOpt, address |-> NoneOpt]

ReqGetProjects == [cmd |-> "get_projects"]
ReqGetProject(id) == [cmd |-> "get_project", project_id |-> id]
ReqCreateProject(d) == [cmd |-> "create_project", data |-> d]
ReqUpdateProject(id, d) == [cmd |-> "update_project", project_id |-> id, data |-> d]
ReqAddRoom(id, d) == [cmd |-> "add_room", project_id |-> id, data |-> d]
ReqAddExpense(id, d) == [cmd |-> "add_expense", project_id |-> id, data |-> d]
ReqUpdateExpense(id, d) == [cmd |-> "update_expense", expense_id |-> id, data |-> d]
ReqExportProject(id, f) == [cmd |-> "export_project", project_id |-> id, format |-> f]
ReqJson == [cmd |-> "json_command", argv |-> << <<"project">>, <<"list">> >>]

Requests == {ReqGetProjects, ReqGetProject(42), ReqCreateProject(Lakehouse), ReqJson}

Output(code, stdout, stderr) == [code |-> code, stdout |-> stdout, stderr |-> stderr]

StderrNotFound == <<"ProjectNotFound: id 42">>

OutsFew == { Output(0, <<"o", "k">>, <<>>), Output(1, <<>>, StderrNotFound) }

\* every host: each candidate in each of its states
Spec == Init(EnvAll, BOOLEAN, {FALSE}) /\ [][Next(Requests, OutsFew)]_vars

Pad(n) == [i \in 1..n |-> "a"]

\* the record example of the interface, written with the modelled characters
KitchenOut == <<"x", "\n", "{", "}", "\n", "x">>

StdoutSamples ==
    { <<>>, <<"o", "k">>, KitchenOut, <<"x", InvalidByte, "\n">>,
      Pad(DebugSliceLimit - 2) \o <<EAcute>>,
      Pad(DebugSliceLimit - 1) \o <<EAcute>>,
      Pad(DebugSliceLimit - 1) \o <<EAcute, "\n", "{", "}">>,
      Pad(DebugSliceLimit) \o <<EAcute>> }

StderrSamples == { <<>>, StderrNotFound, <<"T", "r", "a", "c", "e", InvalidByte, "\n">> }

ExitCodes == {0, 1, 2}

OutsExec == { Output(code, so, se) : code \in ExitCodes, so \in StdoutSamples, se \in StderrSamples }

\* hosts with one bundled runtime, with a system interpreter only, with none
EnvFew ==
    { [k \in CandIds |-> IF k = 2 THEN "ok" ELSE IF IsBundled(k) THEN "missing" ELSE "spawnfail"],
      [k \in CandIds |-> IF k = 4 THEN "ok" ELSE IF IsBundled(k) THEN "missing" ELSE "nonzero"],
      [k \in CandIds |-> IF IsBundled(k) THEN "missing" ELSE "spawnfail"] }

SpecExec == Init(EnvFew, {TRUE}, BOOLEAN) /\ [][Next(Requests, OutsExec)]_vars

MaxLines == 4

LineSamples ==
    << <<>>, <<"x">>, <<"7">>, <<"[", "7", "]">>, <<" ", "{", "}", "\r">>,
       <<"{", "x">>, <<"[", "]", "x">> >>

\* the lines joined by "\n"
RECURSIVE JoinLines(_)
JoinLines(ls) ==
    IF Len(ls) = 0 THEN <<>>
    ELSE IF Len(ls) = 1 THEN ls[1]
    ELSE ls[1] \o <<"\n">> \o JoinLines(Tail(ls))

LineChoices == UNION { [1..n -> 1..Len(LineSamples)] : n \in 0..MaxLines }

Texts == { JoinLines([i \in 1..Len(ch) |-> LineSamples[ch[i]]]) : ch \in LineChoices }

OutsJson == { Output(code, so, StderrNotFound) : code \in {0, 1}, so \in Texts }

\* a host whose Unix-style bundled runtime verifies
EnvBundled == { [k \in CandIds |-> IF k = 2 THEN "ok" ELSE IF IsBundled(k) THEN "missing" ELSE "spawnfail"] }

SpecJson == Init(EnvBundled, {TRUE}, BOOLEAN) /\ [][Next({ReqJson}, OutsJson)]_vars

\* the requests the argument builders are applied to
Address == <<"12", " ", "Elm", " ", "St">>
Names == { <<"Lakehouse">>, <<"Oak", " ", "Street">> }
Budgets == {500000, 1}
ProjectDatas ==
    { [name |-> n, budget |-> b, property_type |-> pt, property_class |-> <<"residential">>,
       description |-> de, floors |-> fl, sqft |-> sq, address |-> ad] :
        n \in Names, b \in Budgets, pt \in { <<"flip">>, <<"rental">> },
        de \in {NoneOpt, Some(<<"needs", " ", "roof">>)},
        fl \in {NoneOpt, Some(2), Some(10)},
        sq \in {NoneOpt, Some(2401)},
        ad \in {NoneOpt, Some(Address)} }

UpdateProjectDatas ==
    { [name |-> n, budget |-> b, description |-> de, floors |-> fl, sqft |-> sq,
       address |-> ad] :
        n \in {NoneOpt, Some(<<"Lakehouse">>)}, b \in {NoneOpt, Some(500000)},
        de \in {NoneOpt, Some(<<"needs", " ", "roof">>)}, fl \in {NoneOpt, Some(2)},
        sq \in {NoneOpt, Some(2401)}, ad \in {NoneOpt, Some(Address)} }

RoomDatas ==
    { [name |-> <<"Kitchen">>, floor |-> 1, length |-> l, width |-> w, height |-> h,
       condition |-> co, notes |-> no] :
        l \in {NoneOpt, Some(25)}, w \in {NoneOpt, Some(20)}, h \in {NoneOpt, Some(5)},
        co \in {NoneOpt, Some(3)}, no \in {NoneOpt, Some(<<"north", " ", "wall">>)} }

\* hours of none, zero, one and a half, eight, and minus one
ExpenseDatas ==
    { [room_name |-> <<"Kitchen">>, category |-> ca, cost |-> co, hours |-> h,
       condition |-> cn, notes |-> no] :
        ca \in { <<"material">>, <<"labor">> }, co \in {2401, 0},
        h \in {NoneOpt, Some(0), Some(3), Some(16), Some(-2)},
        cn \in {NoneOpt, Some(3)},
        no \in {NoneOpt, Some(<<>>), Some(<<" ", "\t">>), Some(<<" ", "p", "a", "i", "d">>)} }

\* the JSON objects update_expense is given: each key absent or holding a value
ExpenseUpdates ==
    { [room_name |-> rn, category |-> ca, cost |-> co, hours |-> h, condition |-> cn,
       notes |-> no] :
        rn \in {NoneOpt, Some(JStr(<<"Kitchen">>))},
        ca \in {NoneOpt, Some(JStr(<<"labor">>))},
        co \in {NoneOpt, Some(JFloat(2401)), Some(JStr(<<"1", "2">>))},
        h \in {NoneOpt, Some(JInt(0)), Some(JFloat(0)), Some(JFloat(3)), Some(JNull)},
        cn \in {NoneOpt, Some(JInt(3)), Some(JFloat(6))},
        no \in {NoneOpt, Some(JStr(<<>>))} }

\* the format of an export, written by character
ExportFormats == { <<"c", "s", "v">>, <<"C", "S", "V">>, <<"p", "d", "f">>, <<"c", "s", "v", " ">>, <<>> }

BuildRequests ==
    { ReqCreateProject(d) : d \in ProjectDatas }
    \cup { ReqUpdateProject(42, d) : d \in UpdateProjectDatas }
    \cup { ReqAddRoom(42, d) : d \in RoomDatas }
    \cup { ReqAddExpense(42, d) : d \in ExpenseDatas }
    \cup { ReqUpdateExpense(7, d) : d \in ExpenseUpdates }
    \cup { ReqExportProject(42, f) : f \in ExportFormats }

\* every builder on every request, on a host with a bundled runtime
SpecBuild == Init(EnvBundled, {TRUE}, {FALSE}) /\ [][Next(BuildRequests, OutsFew)]_vars

\* two calls of the shell; the async runtime has one worker thread per core
TwoCalls == {1, 2}
WorkerCounts == {1, 2}

\* hosts with no interpreter, a bundled runtime, a system interpreter, both
EnvSeq ==
    EnvFew \cup
    { [k \in CandIds |-> IF k \in {2, 4} THEN "ok" ELSE IF IsBundled(k) THEN "missing" ELSE "spawnfail"] }

RequestsTwo == {ReqGetProjects, ReqCreateProject(Lakehouse)}

NextTwo ==
    \/ \E c \in TwoCalls :
          \/ Invoke(c, RequestsTwo)
          \/ GetCwd(c)
          \/ ProbeStart(c)
          \/ ProbeFinish(c)
          \/ SpawnBackend(c)
          \/ BackendExit(c, OutsFew)
    \/ EnvChange(EnvSeq)

SpecTwo == InitOn(TwoCalls, {"unix"}, WorkerCounts, EnvSeq, {TRUE}, {FALSE}) /\ [][NextTwo]_vars

\* every host of either OS family, one call
SpecHost ==
    InitOn(Calls, OsFamilies, {1}, EnvAll, {TRUE}, {FALSE}) /\ [][Next(RequestsTwo, OutsFew)]_vars

\* a status of 0 or 1, with stdout that holds a JSON line, holds none, or
\* cannot be sliced at the debug limit
OutsRetry ==
    OutsFew \cup
    { Output(0, KitchenOut, <<>>),
      Output(1, Pad(DebugSliceLimit - 1) \o <<EAcute>>, StderrNotFound) }

\* every Unix host, with and without DEBUG events, one call
SpecRetry == Init(EnvAll, {TRUE}, BOOLEAN) /\ [][Next(Requests, OutsRetry)]_vars

-----------------------------------------------------------------------------
(* Interpreter resolution: C1 - C4 *)

Verifying(e) == {k \in CandIds : e[k] = "ok"}
NoneVerifies(e) == Verifying(e) = {}
FirstVerifying(e) == CHOOSE k \in Verifying(e) : \A j \in Verifying(e) : k <= j

Returned(c) == resolveRes[c] # None

\* C1 as stated: for every combination of candidate existence and probe
\* outcomes, get_python_path returns exactly the first candidate, in the fixed
\* order, whose version probe succeeds, and never a candidate that is missing,
\* cannot be spawned or exits nonzero.
C1_FirstVerifyingAlways ==
    \A c \in Calls : Returned(c) =>
        /\ ~NoneVerifies(fs) => resolveRes[c] = Ok(CandPath(FirstVerifying(fs)))
        /\ resolveRes[c].tag = "ok" =>
               \E k \in Verifying(fs) : resolveRes[c].val = CandPath(k)

\* C1 amended: when the current directory can be read, get_python_path returns
\* exactly the first candidate in the fixed order whose probe succeeds, and the
\* not-found error when none does; when the current directory cannot be read
\* it fails before examining any candidate, whatever the candidates are.
C1_FirstVerifying ==
    \A c \in Calls : Returned(c) =>
        IF cwdOk
        THEN resolveRes[c] = IF NoneVerifies(fs) THEN Err(NotFoundMsg)
                             ELSE Ok(CandPath(FirstVerifying(fs)))
        ELSE resolveRes[c] = Err(CwdFailMsg) /\ probeLog[c] = <<>>

\* the fourth candidate is returned after a missing, a failing and an
\* unspawnable one were passed over, with a later candidate verifying too
C1_Witness ==
    \E c \in Calls :
        /\ resolveRes[c] = Ok(<<"python3">>)
        /\ fs[1] = "missing" /\ fs[2] = "nonzero" /\ fs[3] = "spawnfail" /\ fs[5] = "ok"

\* C2: resolution short-circuits. Probes run one at a time and in priority
\* order, no probe is started after one that succeeds, and when only the
\* Unix-style bundled runtime exists and verifies none of the system-named
\* executables is probed.
C2_ShortCircuit ==
    \A c \in Calls :
        /\ Cardinality(probing[c]) <= 1
        /\ pc[c] # "probing" => probing[c] = {}
        /\ \A i, j \in 1..Len(probeLog[c]) :
               i < j => /\ probeLog[c][i].cand < probeLog[c][j].cand
                        /\ fs[probeLog[c][i].cand] # "ok"
        /\ resolveRes[c].tag = "ok" =>
               /\ probeLog[c] # <<>>
               /\ CandPath(probeLog[c][Len(probeLog[c])].cand) = resolveRes[c].val
        /\ (fs[1] = "missing" /\ fs[2] = "ok") =>
               \A i \in 1..Len(probeLog[c]) : IsBundled(probeLog[c][i].cand)

\* the Unix-style bundled runtime is returned after one probe, with every
\* system-named executable able to verify
C2_Witness ==
    \E c \in Calls :
        /\ fs[1] = "missing" /\ fs[2] = "ok"
        /\ \A k \in CandIds : ~IsBundled(k) => fs[k] = "ok"
        /\ resolveRes[c] = Ok(CandPath(2))
        /\ probeLog[c] = <<[cand |-> 2, ran |-> TRUE]>>
        /\ pc[c] = "done"

\* C3: if no candidate verifies, get_python_path fails and
\* execute_python_command returns an error without the backend subprocess
\* ever being started; no interpreter is substituted and no value is returned.
C3_NotFoundNoSpawn ==
    \A c \in Calls : NoneVerifies(fs) =>
        /\ spawned[c] = <<>>
        /\ outc[c] = None
        /\ pc[c] \in {"idle", "cwd", "probe", "probing", "done"}
        /\ resolveRes[c].tag # "ok"
        /\ pc[c] = "done" =>
               /\ resolveRes[c] = IF cwdOk THEN Err(NotFoundMsg) ELSE Err(CwdFailMsg)
               /\ execRes[c] = Err(PyNotFoundPrefix \o resolveRes[c].msg)
               /\ result[c].tag = "err"
               /\ Contains(result[c].msg, execRes[c].msg)

\* every candidate was probed, none verified, and the call has returned
C3_Witness ==
    \E c \in Calls :
        /\ NoneVerifies(fs) /\ cwdOk
        /\ Len(probeLog[c]) = Len(Candidates)
        /\ pc[c] = "done"
        /\ execRes[c] = Err(PyNotFoundPrefix \o NotFoundMsg)

\* C4 as stated: no token of the argument vector is built before interpreter
\* resolution has succeeded.
C4_NoTokenBeforeResolution ==
    \A c \in Calls : (NoneVerifies(fs) \/ resolveRes[c].tag # "ok") => args[c] = <<>>

\* C4 amended: every command builds its argument vector in full before it
\* calls execute_python_command, so before resolution starts; when no candidate
\* verifies that vector is never handed to a subprocess, and a subprocess that
\* is started gets exactly the vector built before resolution.
C4_BuiltFirstNeverRun ==
    \A c \in Calls :
        /\ pc[c] # "idle" => args[c] = BuildArgs(req[c])
        /\ NoneVerifies(fs) => spawned[c] = <<>>
        /\ \A i \in 1..Len(spawned[c]) :
               /\ resolveRes[c].tag = "ok"
               /\ spawned[c][i].argv = << <<"-m">>, <<"src.cli">> >> \o BuildArgs(req[c])

\* create_project has built its eight tokens and resolution then found nothing
C4_Witness ==
    \E c \in Calls :
        /\ req[c] = ReqCreateProject(Lakehouse)
        /\ Len(args[c]) = 8
        /\ resolveRes[c] = Err(NotFoundMsg)
        /\ pc[c] = "done" /\ spawned[c] = <<>>

-----------------------------------------------------------------------------
(* Classification of the backend's exit: C5 - C8 *)

Exited(c) == outc[c] # None
Stdout(c) == Lossy(outc[c].stdout)
Stderr(c) == Lossy(outc[c].stderr)

\* C5: whenever the backend exits with a nonzero status,
\* execute_python_command returns Failure whatever stdout contains, and
\* execute_python_json_command returns that Failure too, decoding nothing.
C5_NonzeroIsFailure ==
    \A c \in Calls : (Exited(c) /\ outc[c].code # 0) =>
        /\ execRes[c] = Err(PyFailedMsg \o Stderr(c))
        /\ result[c].tag = "err"
        /\ IsJsonCall(req[c]) => result[c] = execRes[c]

\* C5, the part that holds of every run: a nonzero exit never yields Success
\* or a decoded value, and a call that returns after it returns the Failure.
NonzeroNeverSuccess ==
    \A c \in Calls : (Exited(c) /\ outc[c].code # 0) =>
        /\ execRes[c].tag # "ok" /\ result[c].tag # "ok"
        /\ pc[c] = "done" =>
               /\ execRes[c] = Err(PyFailedMsg \o Stderr(c))
               /\ result[c].tag = "err"
               /\ IsJsonCall(req[c]) => result[c] = execRes[c]

\* C6: whenever the backend exits with status 0, execute_python_command
\* returns Success carrying the captured stdout text unchanged, for every
\* stdout and stderr, and the calling command returns that text unmodified.
C6_ZeroIsSuccess ==
    \A c \in Calls : (Exited(c) /\ outc[c].code = 0) =>
        /\ execRes[c] = Ok(Stdout(c))
        /\ ~IsJsonCall(req[c]) => result[c] = Ok(Stdout(c))

\* C6, the part that holds of every run: a call that returns after exit
\* status 0 returns the captured stdout text unchanged.
ZeroReturnsStdout ==
    \A c \in Calls : (Exited(c) /\ outc[c].code = 0 /\ pc[c] = "done") =>
        /\ execRes[c] = Ok(Stdout(c))
        /\ ~IsJsonCall(req[c]) => result[c] = Ok(Stdout(c))

\* C7: when the backend exits nonzero, the error message the caller of a
\* command receives contains the subprocess's stderr text, contiguous and
\* unaltered.
C7_StderrVerbatim ==
    \A c \in Calls : (Exited(c) /\ outc[c].code # 0) =>
        /\ result[c].tag = "err"
        /\ Contains(result[c].msg, Stderr(c))

\* C7, the part that holds of every run: the message of a call that returns
\* after a nonzero exit is the command's prefix, "Python command failed: "
\* and the stderr text.
ReturnedStderrVerbatim ==
    \A c \in Calls : (Exited(c) /\ outc[c].code # 0 /\ pc[c] = "done") =>
        result[c] = Err(ErrPrefix(req[c]) \o PyFailedMsg \o Stderr(c))

\* C8: a Failure produced by a nonzero exit carries the exit code: a run that
\* differs only in its nonzero exit code gives the caller a different failure.
C8_ExitCodeCarried ==
    \A c \in Calls : (Exited(c) /\ outc[c].code # 0 /\ pc[c] = "done") =>
        \A other \in ExitCodes \ {0, outc[c].code} :
            Deliver(req[c], Classify(other, Stdout(c), Stderr(c))) # result[c]

-----------------------------------------------------------------------------
(* The structured payload: C9 - C10 *)

\* a line that, trimmed, starts with "{" or "["
IsCandidateLine(l) == Trim(l) # <<>> /\ Trim(l)[1] \in {"{", "["}

\* the decoding of each line that is a candidate and decodes, by line number
Decoded(out) ==
    LET ls == Lines(out)
        dec == [i \in 1..Len(ls) |->
                   IF IsCandidateLine(ls[i]) THEN JsonFromStr(Trim(ls[i])) ELSE None]
    IN  [lines |-> {i \in 1..Len(ls) : dec[i].tag = "ok"}, dec |-> dec]

\* the smallest line number of a set of them
Earliest(S) == CHOOSE i \in S : \A j \in S : i <= j

JsonReturned(c) == pc[c] = "done" /\ IsJsonCall(req[c]) /\ execRes[c].tag = "ok"

\* C9: on a successful execution execute_python_json_command returns the
\* decoding of the earliest line that, trimmed, starts with "{" or "[" and
\* decodes; candidates that fail to decode are skipped, other lines are never
\* decoded, and the lines after the returned one are ignored.
C9_FirstDecodableLine ==
    \A c \in Calls : JsonReturned(c) =>
        LET d == Decoded(execRes[c].val)
        IN  IF d.lines = {} THEN result[c].tag = "err"
            ELSE result[c] = d.dec[Earliest(d.lines)]

\* a line that is JSON but no candidate, a candidate that does not decode,
\* the array that is returned, and an object after it
C9_Witness ==
    \E c \in Calls :
        /\ JsonReturned(c)
        /\ outc[c].stdout = JoinLines(<<LineSamples[3], LineSamples[6], LineSamples[4], LineSamples[5]>>)
        /\ result[c] = Ok([t |-> "arr", items |-> <<[t |-> "num", digits |-> 1]>>])

\* C10: if no line of a successful execution's stdout decodes, in particular
\* when no line starts with "{" or "[", execute_python_json_command fails with
\* the parse failure that carries the exact, complete stdout text, and it
\* never returns a value that no line decodes to.
C10_ParseFailureCarriesOutput ==
    \A c \in Calls : JsonReturned(c) =>
        LET d == Decoded(Stdout(c))
        IN  /\ d.lines = {} => result[c] = Err(NoJsonMsg \o Stdout(c))
            /\ result[c].tag = "ok" => \E i \in d.lines : result[c] = d.dec[i]

\* three lines and a final newline, none starting with "{" or "["
C10_Witness ==
    \E c \in Calls :
        /\ JsonReturned(c)
        /\ outc[c].stdout = <<"x", "\n", "7", "\n", "x", "\n">>
        /\ result[c] = Err(NoJsonMsg \o <<"x", "\n", "7", "\n", "x", "\n">>)

-----------------------------------------------------------------------------
(* Argument vectors: C11 - C13, C17 *)

\* the call has built its argument vector
Built(c) == pc[c] # "idle"

\* the number of present fields among the first i of opts
RECURSIVE Rank(_, _)
Rank(opts, i) ==
    IF i = 0 THEN 0 ELSE Rank(opts, i - 1) + (IF IsSome(opts[i]) THEN 1 ELSE 0)

\* tail consists of exactly the pairs flags[i], opts[i] of the present
\* fields, in the order of the list
PairsInOrder(tail, flags, opts) ==
    /\ Len(tail) = 2 * Rank(opts, Len(opts))
    /\ \A i \in 1..Len(opts) :
          IsSome(opts[i]) =>
              /\ tail[2 * Rank(opts, i) - 1] = flags[i]
              /\ tail[2 * Rank(opts, i)] = Unwrap(opts[i])

CreateFlags == << <<"--description">>, <<"--floors">>, <<"--sqft">>, <<"--address">> >>

LakehouseArgv ==
    << <<"project">>, <<"create">>, <<"Lakehouse">>, <<"2", "5", "0", "0", "0", "0">>,
       <<"flip">>, <<"residential">>, <<"--floors">>, <<"2">> >>

\* C11: for every ProjectData, create_project builds "project", "create",
\* name, the budget as text, property_type, property_class, followed by the
\* pairs --description, --floors, --sqft, --address in that order, each pair
\* present iff its field is; the Lakehouse request with budget 250000.0 and
\* floors 2 gives exactly project create Lakehouse 250000 flip residential
\* --floors 2
C11_CreateProjectArgv ==
    \A c \in DOMAIN pc :
        (Built(c) /\ req[c].cmd = "create_project") =>
            LET d == req[c].data
                a == args[c]
            IN  /\ Len(a) >= 6
                /\ SubSeq(a, 1, 6) = << <<"project">>, <<"create">>, d.name,
                                        F64ToString(d.budget), d.property_type,
                                        d.property_class >>
                /\ PairsInOrder(SubSeq(a, 7, Len(a)), CreateFlags,
                                <<d.description, OptU32Text(d.floors),
                                  OptF64Text(d.sqft), d.address>>)
                /\ (d = Lakehouse => a = LakehouseArgv)

\* the Lakehouse request was built and its vector handed to the backend
C11_Witness ==
    \E c \in DOMAIN pc :
        /\ pc[c] = "running"
        /\ req[c] = ReqCreateProject(Lakehouse)
        /\ args[c] = LakehouseArgv
        /\ spawned[c][1].argv = << <<"-m">>, <<"src.cli">> >> \o LakehouseArgv

\* the hours of the request of an expense command are zero
ZeroHours(r) ==
    \/ r.cmd = "add_expense" /\ r.data.hours = Some(0)
    \/ r.cmd = "update_expense" /\ r.data.hours \in {Some(JInt(0)), Some(JFloat(0))}

HasFlag(a, flag) == \E i \in 1..Len(a) : a[i] = flag

\* C12: neither add_expense nor update_expense emits a --hours pair when the
\* hours of the request equal 0
C12_ZeroHoursOmitted ==
    \A c \in DOMAIN pc :
        (Built(c) /\ req[c].cmd \in {"add_expense", "update_expense"} /\ ZeroHours(req[c]))
            => ~HasFlag(args[c], <<"--hours">>)

\* add_expense alone: hours that are absent, zero or negative give no --hours
\* pair, and hours above zero give the pair with their text
AddExpenseOmitsZeroHours ==
    \A c \in DOMAIN pc :
        (Built(c) /\ req[c].cmd = "add_expense") =>
            LET h == req[c].data.hours
            IN  HasFlag(args[c], <<"--hours">>) <=> (h # NoneOpt /\ h[1] > 0)

UpdateFlags ==
    { <<"--name">>, <<"--description">>, <<"--budget">>, <<"--floors">>, <<"--sqft">>,
      <<"--address">> }

\* the positions of a that hold the token t
Occurrences(a, t) == {i \in 1..Len(a) : a[i] = t}

\* every field of the update is present
FullUpdate(d) ==
    /\ IsSome(d.name) /\ IsSome(d.budget) /\ IsSome(d.description)
    /\ IsSome(d.floors) /\ IsSome(d.sqft) /\ IsSome(d.address)

\* C13: for every UpdateProjectData, the vector update_project builds is
\* project, update, the id, then flag/value pairs whose flags are among
\* --name, --description, --budget, --floors, --sqft, --address, each at
\* most once; no flag of property_type or property_class is among them
C13_UpdateProjectFlags ==
    \A c \in DOMAIN pc :
        (Built(c) /\ req[c].cmd = "update_project") =>
            LET a == args[c]
                tail == SubSeq(a, 4, Len(a))
            IN  /\ Len(a) >= 3
                /\ SubSeq(a, 1, 3) = << <<"project">>, <<"update">>, U32ToString(req[c].project_id) >>
                /\ Len(tail) % 2 = 0
                /\ \A i \in 1..Len(tail) : i % 2 = 1 => tail[i] \in UpdateFlags
                /\ \A f \in UpdateFlags : Cardinality(Occurrences(a, f)) <= 1
                /\ \A t \in { <<"--property-type">>, <<"--property-class">>, <<"--type">>,
                               <<"--class">> } :
                       Occurrences(a, t) = {}

\* an update with all six fields was built: six flags, twelve tokens after
\* the id
C13_Witness ==
    \E c \in DOMAIN pc :
        /\ pc[c] = "running"
        /\ req[c].cmd = "update_project"
        /\ FullUpdate(req[c].data)
        /\ Len(args[c]) = 15
        /\ \A f \in UpdateFlags : Cardinality(Occurrences(args[c], f)) = 1

\* the place of the flag t in the list flags
FlagIndex(flags, t) == CHOOSE i \in 1..Len(flags) : flags[i] = t

OddPositions(tail) == {p \in 1..Len(tail) : p % 2 = 1}

\* tail is made of pairs: each flag is one of the list, is followed by the
\* text of its own field, and stands after the flags of the fields declared
\* before it
InDeclaredOrder(tail, flags, texts) ==
    /\ Len(tail) % 2 = 0
    /\ \A p \in OddPositions(tail) :
          /\ \E i \in 1..Len(flags) : flags[i] = tail[p]
          /\ IsSome(texts[FlagIndex(flags, tail[p])])
          /\ tail[p + 1] = Unwrap(texts[FlagIndex(flags, tail[p])])
    /\ \A p, q \in OddPositions(tail) :
          p < q => FlagIndex(flags, tail[p]) < FlagIndex(flags, tail[q])

\* the optional fields of each request type in the order of the struct, with
\* the flag of each
DeclaredFlags(cmd) ==
    CASE cmd = "create_project" -> CreateFlags
      [] cmd = "update_project" -> << <<"--name">>, <<"--budget">>, <<"--description">>,
                                      <<"--floors">>, <<"--sqft">>, <<"--address">> >>
      [] cmd = "add_room"       -> << <<"--length">>, <<"--width">>, <<"--height">>,
                                      <<"--condition">>, <<"--notes">> >>
      [] cmd = "add_expense"    -> << <<"--hours">>, <<"--condition">>, <<"--notes">> >>

DeclaredTexts(r) ==
    LET d == r.data IN
    CASE r.cmd = "create_project" -> <<d.description, OptU32Text(d.floors), OptF64Text(d.sqft), d.address>>
      [] r.cmd = "update_project" -> <<d.name, OptF64Text(d.budget), d.description,
                                      OptU32Text(d.floors), OptF64Text(d.sqft), d.address>>
      [] r.cmd = "add_room"       -> <<OptF64Text(d.length), OptF64Text(d.width), OptF64Text(d.height),
                                      OptU32Text(d.condition), d.notes>>
      [] r.cmd = "add_expense"    -> <<OptF64Text(d.hours), OptU32Text(d.condition), d.notes>>

\* the number of tokens before the optional pairs
Positional(cmd) ==
    CASE cmd = "create_project" -> 6
      [] cmd = "update_project" -> 3
      [] cmd = "add_room"       -> 5
      [] cmd = "add_expense"    -> 6

BuilderInDeclaredOrder(c) ==
    InDeclaredOrder(SubSeq(args[c], Positional(req[c].cmd) + 1, Len(args[c])),
                    DeclaredFlags(req[c].cmd), DeclaredTexts(req[c]))

\* C17: in create_project, update_project, add_room and add_expense the
\* optional flag/value pairs stand in the order the fields are declared in
\* the request type, each flag followed by its own value; for update_project
\* the order is --name, --budget, --description, --floors, --sqft, --address
C17_DeclaredOrder ==
    \A c \in DOMAIN pc :
        (Built(c) /\ req[c].cmd \in {"create_project", "update_project", "add_room", "add_expense"})
            => BuilderInDeclaredOrder(c)

\* the three builders other than update_project keep the declared order
OthersInDeclaredOrder ==
    \A c \in DOMAIN pc :
        (Built(c) /\ req[c].cmd \in {"create_project", "add_room", "add_expense"})
            => BuilderInDeclaredOrder(c)

-----------------------------------------------------------------------------
(* Calls in sequence and in parallel: C14, C15 *)

\* what a search of the host e gives, by priority alone
ResolutionOf(e, cwd_ok) ==
    IF ~cwd_ok THEN Err(CwdFailMsg)
    ELSE IF NoneVerifies(e) THEN Err(NotFoundMsg)
    ELSE Ok(CandPath(FirstVerifying(e)))

\* C14: nothing is remembered between calls: whenever a call's resolution
\* ends, its outcome is the one the host of that moment gives, and the vector
\* a call builds is the one its own request gives, whatever earlier or other
\* calls returned and however the host changed between the calls
C14_NothingRemembered ==
    [][\A c \in DOMAIN pc :
          /\ resolveRes'[c] # resolveRes[c] => resolveRes'[c] = ResolutionOf(fs, cwdOk)
          /\ args'[c] # args[c] => args'[c] = BuildArgs(req'[c])]_vars

\* the first call found no interpreter; a bundled runtime appeared, and the
\* second call, with the same request, returned it
C14_Witness ==
    /\ pc[1] = "done" /\ pc[2] = "done"
    /\ req[1] = req[2]
    /\ resolveRes[1] = Err(NotFoundMsg)
    /\ resolveRes[2] = Ok(CandPath(2))
    /\ args[1] = args[2]

\* the runtime the first call used was gone when the second call ran
C14_WitnessDropped ==
    /\ pc[1] = "done" /\ pc[2] = "done"
    /\ resolveRes[1] = Ok(CandPath(2))
    /\ resolveRes[2] = Err(NotFoundMsg)

\* a call that is not waiting for a subprocess of its own
Runnable(c) == pc[c] \in {"cwd", "probe", "spawn"}

\* a call whose version probe or backend subprocess is running
AwaitsSubprocess(c) == pc[c] \in {"probing", "running"}

\* the next step of a runnable call can be taken
CanStep(c) == ENABLED (GetCwd(c) \/ ProbeStart(c) \/ SpawnBackend(c))

\* what a finished call returns, from what that call itself saw
OwnResult(c) ==
    LET exec == IF resolveRes[c].tag = "err" THEN Err(PyNotFoundPrefix \o resolveRes[c].msg)
                ELSE IF outc[c] = None THEN Err(IoErrorMsg)
                ELSE Classify(outc[c].code, Lossy(outc[c].stdout), Lossy(outc[c].stderr))
    IN  Deliver(req[c], exec)

\* every finished call returns what it would return alone
ResultAsAlone == \A c \in DOMAIN pc : pc[c] = "done" => result[c] = OwnResult(c)

\* while the backend subprocess of one call runs, the other call can step
BackendDoesNotBlock ==
    \A c, d \in DOMAIN pc :
        (c # d /\ pc[c] = "running" /\ Runnable(d)) => CanStep(d)

\* C15: two concurrent calls are independent: while the version probe or the
\* backend subprocess of one call is running, the other call can still take
\* its next step, and each call returns what it would return alone
C15_Independent ==
    /\ \A c, d \in DOMAIN pc :
          (c # d /\ AwaitsSubprocess(c) /\ Runnable(d)) => CanStep(d)
    /\ ResultAsAlone

\* the two calls can finish in either order
FirstThenSecond == pc[1] = "done" /\ pc[2] = "running"
SecondThenFirst == pc[2] = "done" /\ pc[1] = "running"

-----------------------------------------------------------------------------
(* The host's OS family and the backend subprocess: C16, C18 - C20 *)

\* the bundled-runtime candidate laid out for an OS family
NativeBundled(family) ==
    CHOOSE k \in CandIds : Candidates[k].origin = IF family = "windows" THEN "bundled-windows" ELSE "bundled-unix"

BothBundledVerify == fs[1] = "ok" /\ fs[2] = "ok"

Resolved(c) == pc[c] \in {"spawn", "running", "done"} /\ resolveRes[c].tag = "ok"

\* C16: of the two bundled-runtime candidates the one of the host's OS
\* family is tried first: where both exist and verify, a Unix host resolves
\* to backend/venv/bin/python and a Windows host to
\* backend/venv/Scripts/python.exe
C16_NativeBundledFirst ==
    \A c \in DOMAIN pc :
        (Resolved(c) /\ BothBundledVerify) => resolveRes[c].val = CandPath(NativeBundled(os))

\* the Windows half: a Windows host with both runtimes resolves to Scripts
WindowsHostNativeFirst ==
    \A c \in DOMAIN pc :
        (Resolved(c) /\ BothBundledVerify /\ os = "windows") => resolveRes[c].val = CandPath(1)

\* the backend subprocess of call c has been handed to the OS
Spawned(c) == Len(spawned[c]) > 0

\* the candidate whose handle the call resolved to
HandleCandidate(c) == CHOOSE k \in CandIds : CandPath(k) = resolveRes[c].val

BackendRoot == CurrentDir \o <<"..", "..", "backend">>

\* the directory a working directory names, relative ones taken from the
\* working directory of the shell
Absolute(dir) == IF dir # <<>> /\ dir[1] = "" THEN dir ELSE CurrentDir \o dir

\* C18: a handle is treated as a bundled runtime iff it came from one of the
\* two bundled-runtime candidates; the backend subprocess then runs in the
\* directory three levels above the interpreter file, which is
\* <cwd>/../../backend, and for a system-named handle in the relative
\* directory ../../backend; both name the same backend root
C18_WorkingDirectory ==
    \A c \in DOMAIN pc :
        Spawned(c) =>
            LET h == resolveRes[c].val
                dir == spawned[c][1].dir
            IN  /\ IsBundled(HandleCandidate(c)) =>
                      /\ dir = SubSeq(h, 1, Len(h) - 3)
                      /\ dir = BackendRoot
                /\ ~IsBundled(HandleCandidate(c)) => dir = <<"..", "..", "backend">>
                /\ Absolute(dir) = BackendRoot

\* a backend started with the Windows-style bundled runtime runs in the
\* backend root
C18_Witness ==
    \E c \in DOMAIN pc :
        /\ pc[c] = "running"
        /\ resolveRes[c] = Ok(CandPath(1))
        /\ spawned[c][1].program = CurrentDir \o <<"..", "..", "backend", "venv", "Scripts", "python.exe">>
        /\ spawned[c][1].dir = BackendRoot

\* a backend started with the system interpreter python3 runs in the fallback
SystemHandleUsesFallback ==
    \E c \in DOMAIN pc :
        /\ pc[c] = "running"
        /\ resolveRes[c] = Ok(<<"python3">>)
        /\ spawned[c][1].dir = <<"..", "..", "backend">>

\* the values the bridge sets for the variable name in the environment env
Setting(env, name) == {e[2] : e \in {x \in env : x[1] = name}}

\* C19: every backend subprocess has PYTHONIOENCODING=utf-8 and PYTHONUTF8=1
\* set, whatever the origin of the handle; VIRTUAL_ENV (the venv directory)
\* and PYTHONPATH (the backend root) are set iff the handle is a bundled
\* runtime, and never for a system-named interpreter
C19_Environment ==
    \A c \in DOMAIN pc :
        Spawned(c) =>
            LET h == resolveRes[c].val
                env == spawned[c][1].env
            IN  /\ Setting(env, "PYTHONIOENCODING") = { <<"utf-8">> }
                /\ Setting(env, "PYTHONUTF8") = { <<"1">> }
                /\ IsBundled(HandleCandidate(c)) =>
                      /\ Setting(env, "VIRTUAL_ENV") = { PathText(SubSeq(h, 1, Len(h) - 2)) }
                      /\ Setting(env, "PYTHONPATH") = { PathText(BackendRoot) }
                /\ ~IsBundled(HandleCandidate(c)) =>
                      /\ Setting(env, "VIRTUAL_ENV") = {}
                      /\ Setting(env, "PYTHONPATH") = {}

\* a backend started with the Unix-style bundled runtime has the encoding
\* variables, the venv marker and the module search path
C19_Witness ==
    \E c \in DOMAIN pc :
        /\ pc[c] = "running"
        /\ resolveRes[c] = Ok(CandPath(2))
        /\ Setting(spawned[c][1].env, "PYTHONUTF8") = { <<"1">> }
        /\ Setting(spawned[c][1].env, "VIRTUAL_ENV") = { PathText(CurrentDir \o <<"..", "..", "backend", "venv">>) }
        /\ Setting(spawned[c][1].env, "PYTHONPATH") # {}

\* a backend started with the system interpreter py has the encoding
\* variables and neither of the other two
SystemHandleEnvironment ==
    \E c \in DOMAIN pc :
        /\ pc[c] = "running"
        /\ resolveRes[c] = Ok(<<"py">>)
        /\ Setting(spawned[c][1].env, "PYTHONIOENCODING") = { <<"utf-8">> }
        /\ Setting(spawned[c][1].env, "VIRTUAL_ENV") = {}

\* the character that separates the entries of the executable search path
PathSeparator(family) == IF family = "windows" THEN ";" ELSE ":"

\* the entries of a search path, as the OS family of the host splits it
RECURSIVE SearchPathEntries(_, _)
SearchPathEntries(text, sep) ==
    IF \A i \in 1..Len(text) : text[i] # sep THEN <<text>>
    ELSE LET i == CHOOSE j \in 1..Len(text) :
                      text[j] = sep /\ \A x \in 1..(j - 1) : text[x] # sep
         IN  <<SubSeq(text, 1, i - 1)>> \o SearchPathEntries(SubSeq(text, i + 1, Len(text)), sep)

\* the search path of the backend subprocess starts with the directory of the
\* interpreter and goes on with the entries of the shell's own search path
PrependedSearchPath(c) ==
    LET h == resolveRes[c].val
        entries == SearchPathEntries(CHOOSE v \in Setting(spawned[c][1].env, "PATH") : TRUE,
                                     PathSeparator(os))
    IN  /\ Setting(spawned[c][1].env, "PATH") # {}
        /\ entries[1] = PathText(SubSeq(h, 1, Len(h) - 1))
        /\ SubSeq(entries, 2, Len(entries)) = SearchPathEntries(InheritedPath, PathSeparator(os))

\* C20: when a bundled runtime is used, on a Windows host (separator ;) and
\* on a Unix host (separator :) the directory holding the interpreter is the
\* first entry of the search path the subprocess sees, and every entry of
\* the shell's own search path follows it, unchanged and in the same order
C20_SearchPathPrepended ==
    \A c \in DOMAIN pc :
        (Spawned(c) /\ IsBundled(HandleCandidate(c))) => PrependedSearchPath(c)

\* the Windows half: on a Windows host the search path is prepended to
WindowsSearchPathPrepended ==
    \A c \in DOMAIN pc :
        (Spawned(c) /\ IsBundled(HandleCandidate(c)) /\ os = "windows") => PrependedSearchPath(c)

-----------------------------------------------------------------------------
(* Failures are final: C21, C22 *)

\* the call has returned or has been torn down
Ended(c) == pc[c] \in {"done", "panicked"}

\* the OS could not start the backend subprocess
LaunchFailed(c) == execRes[c].tag = "err" /\ execRes[c].msg = IoErrorMsg

\* the backend subprocess ran and exited with a status other than 0
NonzeroExit(c) == outc[c] # None /\ outc[c].code # 0

\* execute_python_command succeeded and no line of the output decoded
ParseFailed(c) ==
    /\ pc[c] = "done"
    /\ IsJsonCall(req[c])
    /\ execRes[c].tag = "ok"
    /\ result[c].tag = "err"

\* the probes of the call so far went to different candidates, in order
ProbedOnceEach(c) ==
    \A i, j \in 1..Len(probeLog[c]) : i < j => probeLog[c][i].cand < probeLog[c][j].cand

\* C21: nothing is retried: in one call each interpreter candidate is probed
\* at most once, at most five probes in all, and the backend subprocess is
\* started at most once; after a launch failure, a nonzero exit or a parse
\* failure the call has ended, no subprocess of it runs or is started, and a
\* call that returns returns that first failure
C21_NoRetry ==
    \A c \in DOMAIN pc :
        /\ ProbedOnceEach(c)
        /\ Len(probeLog[c]) <= 5
        /\ Len(spawned[c]) <= 1
        /\ LaunchFailed(c) =>
              /\ Ended(c) /\ probing[c] = {} /\ spawned[c] = <<>>
              /\ result[c] = Deliver(req[c], Err(IoErrorMsg))
        /\ NonzeroExit(c) =>
              /\ Ended(c) /\ probing[c] = {} /\ Len(spawned[c]) = 1
              /\ pc[c] = "done" =>
                    result[c] = Deliver(req[c], Err(PyFailedMsg \o Lossy(outc[c].stderr)))
        /\ ParseFailed(c) =>
              /\ Ended(c) /\ probing[c] = {} /\ Len(spawned[c]) = 1
              /\ result[c] = Err(NoJsonMsg \o execRes[c].val)

\* all five candidates were probed, the last one verified, the backend ran
\* once and exited nonzero, and the call returned that failure
C21_Witness ==
    \E c \in DOMAIN pc :
        /\ pc[c] = "done"
        /\ Len(probeLog[c]) = 5
        /\ Len(spawned[c]) = 1
        /\ NonzeroExit(c)
        /\ result[c].tag = "err"

\* a launch failure and a parse failure each ended a call
LaunchFailureEnds == \E c \in DOMAIN pc : LaunchFailed(c) /\ pc[c] = "done"
ParseFailureEnds == \E c \in DOMAIN pc : ParseFailed(c) /\ Len(spawned[c]) = 1

\* a nonzero exit tore the call down inside the debug event
NonzeroExitTearsDown == \E c \in DOMAIN pc : NonzeroExit(c) /\ pc[c] = "panicked"

\* the call reached interpreter resolution
ReachedResolution(c) == resolveRes[c] # None

\* C22: building the argument vector never fails: every command, for every
\* request value, reaches interpreter resolution, so a call that has ended
\* has been through resolution and every error comes from resolution,
\* launch, exit status or parsing; export_project with any format proceeds
\* to resolution and returns no error before a subprocess is spawned
C22_AlwaysReachesResolution ==
    \A c \in DOMAIN pc : Ended(c) => ReachedResolution(c)

\* every command but export_project, and export_project with the format
\* csv, reaches resolution
OnlyExportIsTurnedDown ==
    \A c \in DOMAIN pc :
        (Ended(c) /\ ~ReachedResolution(c)) =>
            /\ req[c].cmd = "export_project"
            /\ req[c].format # <<"c", "s", "v">>
            /\ result[c] = Err(UnsupportedFormatMsg)
            /\ probeLog[c] = <<>> /\ spawned[c] = <<>>

\* an export in the format csv was handed to the backend
CsvExportRuns ==
    \E c \in DOMAIN pc :
        /\ pc[c] = "running"
        /\ req[c] = ReqExportProject(42, <<"c", "s", "v">>)
        /\ args[c] = << <<"export">>, <<"csv">>, <<"4", "2">> >>

====
